---- MODULE Spec2Model ----
(***************************************************************************)
(* Model of RavulapalliManas/Fish-tracking, src/Main.py: the interactive   *)
(* region editor (class BoxManager) driven by the setup loop define_boxes. *)
(*                                                                         *)
(* Python values are modelled with their container type where a conversion *)
(* can change it: a corner is a record [t, x, y] with t = "tuple" for      *)
(* (x, y) and t = "list" for [x, y]; a JSON array of two numbers is the    *)
(* TLA+ tuple <<x, y>>.  None is NoPoint for a point and NoIndex for an    *)
(* index (the code never produces a negative index).                       *)
(***************************************************************************)
EXTENDS Integers, Sequences, FiniteSets, TLC

\* ------------------------------------------------------------------ bounds
\* Number of input events (pointer events, keys, relaunches) of one behaviour.
MaxEvents == 5

\* Pointer positions delivered by the window system.  For the rectangle drawn
\* from (0,0) to (24,24): two of its corners, the middle of an edge, an
\* interior point, a point outside within the corner threshold of a corner,
\* and a point outside and away from every corner.
Points == {<<0, 0>>, <<12, 0>>, <<12, 12>>, <<24, 24>>, <<30, 24>>, <<36, 12>>}

\* ------------------------------------------------------- program constants
\* get_near_corner(self, box, point, threshold=10)
Threshold == 10

NoPoint == <<>>

NoIndex == -1

\* ----------------------------------------------------------- Python values
Tup(x, y) == [t |-> "tuple", x |-> x, y |-> y]

Lst(x, y) == [t |-> "list", x |-> x, y |-> y]

\* point = (x, y) stored into a box
PointToCorner(p) == Tup(p[1], p[2])

\* The numbers of a box, without the container types.
CoordsOfBox(box) == [k \in 1..Len(box) |-> <<box[k].x, box[k].y>>]

CoordsOf(bs) == [i \in 1..Len(bs) |-> CoordsOfBox(bs[i])]

Min2(a, b) == IF a <= b THEN a ELSE b

Max2(a, b) == IF a >= b THEN a ELSE b

\* f"Box {len(self.boxes)}"
BoxLabel(n) == "Box " \o ToString(n)

\* ------------------------------------------------------ geometry utilities
\* np.hypot(corner[0] - point[0], corner[1] - point[1]) < threshold, on
\* integers: the square root is below the threshold exactly when the sum of
\* squares is below its square.
HypotBelow(c, p, threshold) ==
    (c.x - p[1]) * (c.x - p[1]) + (c.y - p[2]) * (c.y - p[2]) < threshold * threshold

\* for i, corner in enumerate(box): first corner within the threshold,
\* 0-based; NoIndex for None.
get_near_corner(box, point) ==
    LET near == {k \in 1..Len(box) : HypotBelow(box[k], point, Threshold)}
    IN  IF near = {} THEN NoIndex
        ELSE (CHOOSE k \in near : \A j \in near : k <= j) - 1

\* cv2.pointPolygonTest(pts, point, False) on an int32 contour and an integer
\* point: the library's integer branch.  Walks the edges (v0, v) in order,
\* returns 0 at the first edge the point lies on, else +1 / -1 by the parity
\* of the crossing counter.
RECURSIVE PPTLoop(_, _, _, _)
PPTLoop(cnt, ip, i, counter) ==
    IF i > Len(cnt) THEN (IF counter % 2 = 0 THEN -1 ELSE 1)
    ELSE
      LET v0 == IF i = 1 THEN cnt[Len(cnt)] ELSE cnt[i - 1]
          v  == cnt[i]
          px == ip[1]
          py == ip[2]
      IN  IF \/ (v0.y <= py /\ v.y <= py)
             \/ (v0.y > py /\ v.y > py)
             \/ (v0.x < px /\ v.x < px)
          THEN IF /\ py = v.y
                  /\ \/ px = v.x
                     \/ /\ py = v0.y
                        /\ \/ (v0.x <= px /\ px <= v.x)
                           \/ (v.x <= px /\ px <= v0.x)
               THEN 0
               ELSE PPTLoop(cnt, ip, i + 1, counter)
          ELSE
            LET d0   == (py - v0.y) * (v.x - v0.x) - (px - v0.x) * (v.y - v0.y)
                dist == IF v.y < v0.y THEN -d0 ELSE d0
            IN  IF d0 = 0 THEN 0
                ELSE PPTLoop(cnt, ip, i + 1, counter + (IF dist > 0 THEN 1 ELSE 0))

pointPolygonTest(cnt, ip) ==
    IF Len(cnt) = 0 THEN -1 ELSE PPTLoop(cnt, ip, 1, 0)

\* A test that leaves the boundary out.
point_in_box_strict(point, box) == pointPolygonTest(box, point) > 0

\* return cv2.pointPolygonTest(pts, point, False) >= 0
point_in_box(point, box) == pointPolygonTest(box, point) >= 0

\* ------------------------------------------------- persisted configuration
\* Content of the configuration file: absent, not parsable as JSON, or a JSON
\* object with some of the keys "boxes" and "labels".
FileMissing == [kind |-> "missing", keys |-> {}, boxes |-> <<>>, labels |-> <<>>]

FileGarbage == [kind |-> "garbage", keys |-> {}, boxes |-> <<>>, labels |-> <<>>]

JsonDoc(keys, bs, ls) == [kind |-> "json", keys |-> keys, boxes |-> bs, labels |-> ls]

\* json.dump({"boxes": self.boxes, "labels": self.labels}, f): tuples and
\* lists are both written as JSON arrays.
JsonDump(bs, ls) == JsonDoc({"boxes", "labels"}, CoordsOf(bs), ls)

\* A reader that takes each pair as [y, x].
JsonToBoxSwapped(jb) == [k \in 1..Len(jb) |-> Lst(jb[k][2], jb[k][1])]

\* json.load: every JSON array comes back as a Python list.
JsonToBox(jb) == [k \in 1..Len(jb) |-> Lst(jb[k][1], jb[k][2])]

JsonToBoxes(jbs) == [i \in 1..Len(jbs) |-> JsonToBox(jbs[i])]

\* BoxManager.load_configuration on a fresh manager (boxes = labels = []),
\* with the caller's try/except: the manager's lists after the call and
\* whether it raised.  self.boxes is assigned before config["labels"] is read.
load_configuration(f) ==
    IF f.kind # "json"
    THEN [boxes |-> <<>>, labels |-> <<>>, raised |-> TRUE]
    ELSE IF "boxes" \notin f.keys
    THEN [boxes |-> <<>>, labels |-> <<>>, raised |-> TRUE]
    ELSE IF "labels" \notin f.keys
    THEN [boxes |-> JsonToBoxes(f.boxes), labels |-> <<>>, raised |-> TRUE]
    ELSE [boxes |-> JsonToBoxes(f.boxes), labels |-> f.labels, raised |-> FALSE]

\* Configuration files found on disk when the program is launched.
CfgBig == <<<<0, 0>>, <<24, 0>>, <<24, 24>>, <<0, 24>>>>

CfgInner == <<<<12, 12>>, <<36, 12>>, <<36, 36>>, <<12, 36>>>>

InitialFiles ==
    { FileMissing,
      FileGarbage,
      JsonDoc({"boxes", "labels"}, <<CfgBig, CfgInner>>, <<"left", "right">>),
      JsonDoc({"boxes"}, <<CfgBig>>, <<>>),
      JsonDoc({"labels"}, <<>>, <<"left">>) }

\* ------------------------------------------------------------- dictionaries
\* A dict as the sequence of its items in insertion order.
DictKeys(d) == {d[i].key : i \in 1..Len(d)}

DictSet(d, k, c, t) ==
    IF k \in DictKeys(d)
    THEN [i \in 1..Len(d) |-> IF d[i].key = k
                              THEN [key |-> k, coords |-> c, time |-> t]
                              ELSE d[i]]
    ELSE Append(d, [key |-> k, coords |-> c, time |-> t])

\* {label: {"coords": box, "time": 0} for label, box in zip(labels, boxes)}
RECURSIVE ZipDict(_, _, _, _)
ZipDict(ls, bs, i, d) ==
    IF i > Min2(Len(ls), Len(bs)) THEN d
    ELSE ZipDict(ls, bs, i + 1, DictSet(d, ls[i], bs[i], 0))

get_box_data(ls, bs) == ZipDict(ls, bs, 1, <<>>)

\* -------------------------------------------------------------------- state
VARIABLES
    boxes,                  \* BoxManager.boxes
    labels,                 \* BoxManager.labels
    drawing,                \* BoxManager.drawing
    current_box_start,      \* BoxManager.current_box_start
    current_box_end,        \* BoxManager.current_box_end
    selected_box_index,     \* BoxManager.selected_box_index
    selected_corner_index,  \* BoxManager.selected_corner_index
    moving_box,             \* BoxManager.moving_box
    move_start,             \* BoxManager.move_start
    pc,                     \* define_boxes: "start", "edit", "returned", "raised" (uncaught exception)
    config_file,            \* define_boxes' config_file argument is given
    file,                   \* content of the configuration file
    load_status,            \* "none", "ok" (line 156) or "failed" (line 158)
    cb_error,               \* an exception left handle_mouse_event
    result,                 \* value returned by define_boxes
    ev,                     \* the last input event
    nev,                    \* number of input events so far
    mpc,                    \* main: "setup", "loop", "done", "raised", "exited"
    scale_factor,           \* main's scale_factor, as <<numerator, denominator>>
    total_frames,           \* frames the video source holds
    frames_read,            \* successful cap.read() calls of the frame loop
    frame_count,            \* main's frame_count
    bg_updates,             \* fgbg.apply calls: updates of the background model
    processed,              \* indices of the frames given to process_frame
    stages,                 \* operations process_frame applied to its last frame
    found,                  \* contours process_frame returned for it (line 340)
    detections,             \* boxes computed by draw_fish_contours, last frame
    time_spent,             \* main's time_spent, in additions of frame_skip / fps
    output                  \* box_data as returned by main

mgr == <<boxes, labels, drawing, current_box_start, current_box_end,
         selected_box_index, selected_corner_index, moving_box, move_start>>

vars == <<boxes, labels, drawing, current_box_start, current_box_end,
          selected_box_index, selected_corner_index, moving_box, move_start,
          pc, config_file, file, load_status, cb_error, result, ev, nev,
          mpc, scale_factor, total_frames, frames_read, frame_count, bg_updates,
          processed, stages, found, detections, time_spent, output>>

\* The state of main's frame loop.
dvars == <<mpc, scale_factor, total_frames, frames_read, frame_count, bg_updates,
           processed, stages, found, detections, time_spent, output>>

\* main before its frame loop (lines 314-326 not reached yet).
MainNotStarted ==
    /\ mpc = "setup"
    /\ scale_factor = <<7, 10>>
    /\ total_frames = 0
    /\ frames_read = 0
    /\ frame_count = 0
    /\ bg_updates = 0
    /\ processed = {}
    /\ stages = <<>>
    /\ found = <<>>
    /\ detections = <<>>
    /\ time_spent = <<>>
    /\ output = <<>>

Event(type, pt, ok) == [type |-> type, pt |-> pt, ok |-> ok]

\* BoxManager.__init__
BoxManagerInit ==
    /\ boxes = <<>>
    /\ labels = <<>>
    /\ drawing = FALSE
    /\ current_box_start = NoPoint
    /\ current_box_end = NoPoint
    /\ selected_box_index = NoIndex
    /\ selected_corner_index = NoIndex
    /\ moving_box = FALSE
    /\ move_start = NoPoint

Init ==
    /\ BoxManagerInit
    /\ pc = "start"
    /\ \/ config_file = TRUE /\ file \in InitialFiles
       \/ config_file = FALSE /\ file = FileMissing
    /\ load_status = "none"
    /\ cb_error = FALSE
    /\ result = <<>>
    /\ ev = Event("none", NoPoint, TRUE)
    /\ nev = 0
    /\ MainNotStarted

\* define_boxes, lines 151-158: a fresh BoxManager, then the guarded load.
FreshAndLoad ==
    /\ drawing' = FALSE
    /\ current_box_start' = NoPoint
    /\ current_box_end' = NoPoint
    /\ selected_box_index' = NoIndex
    /\ selected_corner_index' = NoIndex
    /\ moving_box' = FALSE
    /\ move_start' = NoPoint
    /\ IF config_file /\ file.kind # "missing"
       THEN LET r == load_configuration(file)
            IN  /\ boxes' = r.boxes
                /\ labels' = r.labels
                /\ load_status' = IF r.raised THEN "failed" ELSE "ok"
       ELSE /\ boxes' = <<>>
            /\ labels' = <<>>
            /\ load_status' = "none"

Launch ==
    /\ pc = "start"
    /\ FreshAndLoad
    /\ pc' = "edit"
    /\ UNCHANGED <<config_file, file, cb_error, result, ev, nev>>
    /\ UNCHANGED dvars

\* The program is run again on the same configuration file.
Relaunch ==
    /\ pc \in {"returned", "raised"}
    /\ nev < MaxEvents
    /\ FreshAndLoad
    /\ pc' = "edit"
    /\ cb_error' = FALSE
    /\ result' = <<>>
    /\ ev' = Event("launch", NoPoint, TRUE)
    /\ nev' = nev + 1
    /\ UNCHANGED <<config_file, file>>
    /\ UNCHANGED dvars

\* ------------------------------------------------- BoxManager: pointer events
MinOf(S) == CHOOSE i \in S : \A j \in S : i <= j

\* The hit test with its two loops exchanged: containment before corners.
HitTestInsideFirst(bs, point) ==
    LET cornerHits == {i \in 1..Len(bs) : get_near_corner(bs[i], point) # NoIndex}
        insideHits == {i \in 1..Len(bs) : point_in_box(point, bs[i])}
    IN  IF insideHits # {}
        THEN [kind |-> "move", box |-> MinOf(insideHits) - 1, corner |-> NoIndex]
        ELSE IF cornerHits # {}
        THEN [kind |-> "corner", box |-> MinOf(cornerHits) - 1,
              corner |-> get_near_corner(bs[MinOf(cornerHits)], point)]
        ELSE [kind |-> "draw", box |-> NoIndex, corner |-> NoIndex]

\* Lines 41-55: the hit test of a pointer-down.  First loop: the first box
\* with a corner near the point; second loop: the first box containing the
\* point; else a new drawing.  Indices are 0-based as in the code.
HitTest(bs, point) ==
    LET cornerHits == {i \in 1..Len(bs) : get_near_corner(bs[i], point) # NoIndex}
        insideHits == {i \in 1..Len(bs) : point_in_box(point, bs[i])}
    IN  IF cornerHits # {}
        THEN [kind |-> "corner", box |-> MinOf(cornerHits) - 1,
              corner |-> get_near_corner(bs[MinOf(cornerHits)], point)]
        ELSE IF insideHits # {}
        THEN [kind |-> "move", box |-> MinOf(insideHits) - 1, corner |-> NoIndex]
        ELSE [kind |-> "draw", box |-> NoIndex, corner |-> NoIndex]

\* event == cv2.EVENT_LBUTTONDOWN
MouseDown(point) ==
    /\ pc = "edit"
    /\ nev < MaxEvents
    /\ LET h == HitTest(boxes, point)
       IN  \/ /\ h.kind = "corner"
              /\ selected_box_index' = h.box
              /\ selected_corner_index' = h.corner
              /\ UNCHANGED <<drawing, current_box_start, current_box_end,
                             moving_box, move_start>>
           \/ /\ h.kind = "move"
              /\ selected_box_index' = h.box
              /\ moving_box' = TRUE
              /\ move_start' = point
              /\ UNCHANGED <<drawing, current_box_start, current_box_end,
                             selected_corner_index>>
           \/ /\ h.kind = "draw"
              /\ drawing' = TRUE
              /\ current_box_start' = point
              /\ current_box_end' = point
              /\ UNCHANGED <<selected_box_index, selected_corner_index,
                             moving_box, move_start>>
    /\ ev' = Event("down", point, TRUE)
    /\ nev' = nev + 1
    /\ UNCHANGED <<boxes, labels, pc, config_file, file, load_status, cb_error, result>>
    /\ UNCHANGED dvars

\* Line 61: self.boxes[i][k] = point, for 0-based i and k that are in range.
SetCorner(bs, i, k, point) == [bs EXCEPT ![i + 1][k + 1] = PointToCorner(point)]

\* Lines 63-67: every corner of box i shifted by (dx, dy), as tuples.
Translate(bs, i, dx, dy) ==
    [bs EXCEPT ![i + 1] =
        [c \in 1..Len(bs[i + 1]) |-> Tup(bs[i + 1][c].x + dx, bs[i + 1][c].y + dy)]]

\* event == cv2.EVENT_MOUSEMOVE.  An index past the end of a list raises
\* IndexError before anything is assigned; the exception leaves the callback.
MouseMove(point) ==
    /\ pc = "edit"
    /\ nev < MaxEvents
    /\ \/ /\ drawing
          /\ current_box_end' = point
          /\ UNCHANGED <<boxes, move_start, cb_error>>
       \/ /\ ~drawing
          /\ selected_corner_index # NoIndex /\ selected_box_index # NoIndex
          /\ IF /\ selected_box_index < Len(boxes)
                /\ selected_corner_index < Len(boxes[selected_box_index + 1])
             THEN /\ boxes' = SetCorner(boxes, selected_box_index,
                                        selected_corner_index, point)
                  /\ UNCHANGED cb_error
             ELSE /\ cb_error' = TRUE
                  /\ UNCHANGED boxes
          /\ UNCHANGED <<current_box_end, move_start>>
       \/ /\ ~drawing
          /\ ~(selected_corner_index # NoIndex /\ selected_box_index # NoIndex)
          /\ moving_box /\ selected_box_index # NoIndex /\ move_start # NoPoint
          /\ IF selected_box_index < Len(boxes)
             THEN /\ boxes' = Translate(boxes, selected_box_index,
                                        point[1] - move_start[1],
                                        point[2] - move_start[2])
                  /\ move_start' = point
                  /\ UNCHANGED cb_error
             ELSE /\ cb_error' = TRUE
                  /\ UNCHANGED <<boxes, move_start>>
          /\ UNCHANGED current_box_end
       \/ /\ ~drawing
          /\ ~(selected_corner_index # NoIndex /\ selected_box_index # NoIndex)
          /\ ~(moving_box /\ selected_box_index # NoIndex /\ move_start # NoPoint)
          /\ UNCHANGED <<boxes, current_box_end, move_start, cb_error>>
    /\ ev' = Event("move", point, TRUE)
    /\ nev' = nev + 1
    /\ UNCHANGED <<labels, drawing, current_box_start, selected_box_index,
                   selected_corner_index, moving_box, pc, config_file, file,
                   load_status, result>>
    /\ UNCHANGED dvars

\* The rectangle built from the anchors as given, without min/max.
NewBoxUnordered(a, b) ==
    <<Tup(a[1], a[2]), Tup(b[1], a[2]), Tup(b[1], b[2]), Tup(a[1], b[2])>>

\* Lines 73-77: the two anchor points as an axis-aligned rectangle.
NewBox(a, b) ==
    LET x_min == Min2(a[1], b[1])
        x_max == Max2(a[1], b[1])
        y_min == Min2(a[2], b[2])
        y_max == Max2(a[2], b[2])
    IN  <<Tup(x_min, y_min), Tup(x_max, y_min), Tup(x_max, y_max), Tup(x_min, y_max)>>

\* event == cv2.EVENT_LBUTTONUP.  The event's own position is not used.
MouseUp ==
    /\ pc = "edit"
    /\ nev < MaxEvents
    /\ IF drawing
       THEN /\ drawing' = FALSE
            /\ boxes' = Append(boxes, NewBox(current_box_start, current_box_end))
            /\ labels' = Append(labels, BoxLabel(Len(boxes) + 1))
            /\ current_box_start' = NoPoint
            /\ current_box_end' = NoPoint
       ELSE UNCHANGED <<drawing, boxes, labels, current_box_start, current_box_end>>
    /\ selected_box_index' = NoIndex
    /\ selected_corner_index' = NoIndex
    /\ moving_box' = FALSE
    /\ move_start' = NoPoint
    /\ ev' = Event("up", NoPoint, TRUE)
    /\ nev' = nev + 1
    /\ UNCHANGED <<pc, config_file, file, load_status, cb_error, result>>
    /\ UNCHANGED dvars

\* --------------------------------------------------- define_boxes: the keys
Front(s) == SubSeq(s, 1, Len(s) - 1)

\* An undo that pops the region and leaves its label.
remove_last_box_keeps_label(bs, ls) ==
    IF Len(bs) = 0 THEN [boxes |-> bs, labels |-> ls, raised |-> FALSE]
    ELSE [boxes |-> Front(bs), labels |-> ls, raised |-> FALSE]

\* BoxManager.remove_last_box: the lists after the call and whether
\* self.labels.pop() raised IndexError (after self.boxes.pop() was done).
remove_last_box(bs, ls) ==
    IF Len(bs) = 0 THEN [boxes |-> bs, labels |-> ls, raised |-> FALSE]
    ELSE IF Len(ls) = 0 THEN [boxes |-> Front(bs), labels |-> ls, raised |-> TRUE]
    ELSE [boxes |-> Front(bs), labels |-> Front(ls), raised |-> FALSE]

\* key == ord('z').  An exception here is not caught by define_boxes.
KeyUndo ==
    /\ pc = "edit"
    /\ nev < MaxEvents
    /\ LET r == remove_last_box(boxes, labels)
       IN  /\ boxes' = r.boxes
           /\ labels' = r.labels
           /\ pc' = IF r.raised THEN "raised" ELSE pc
    /\ ev' = Event("key_z", NoPoint, TRUE)
    /\ nev' = nev + 1
    /\ UNCHANGED <<drawing, current_box_start, current_box_end, selected_box_index,
                   selected_corner_index, moving_box, move_start, config_file, file,
                   load_status, cb_error, result>>
    /\ UNCHANGED dvars

\* key == ord('r')
KeyReset ==
    /\ pc = "edit"
    /\ nev < MaxEvents
    /\ boxes' = <<>>
    /\ labels' = <<>>
    /\ ev' = Event("key_r", NoPoint, TRUE)
    /\ nev' = nev + 1
    /\ UNCHANGED <<drawing, current_box_start, current_box_end, selected_box_index,
                   selected_corner_index, moving_box, move_start, pc, config_file,
                   file, load_status, cb_error, result>>
    /\ UNCHANGED dvars

\* key == ord('s'): save when a configuration file was given, then leave the
\* loop and return get_box_data().  ok = FALSE: open() raised, which the
\* try/except reports; the file keeps its content.
KeySave(ok) ==
    /\ pc = "edit"
    /\ nev < MaxEvents
    /\ file' = IF config_file /\ ok THEN JsonDump(boxes, labels) ELSE file
    /\ pc' = "returned"
    /\ result' = get_box_data(labels, boxes)
    /\ ev' = Event("key_s", NoPoint, config_file /\ ok)
    /\ nev' = nev + 1
    /\ UNCHANGED <<mgr, config_file, load_status, cb_error>>
    /\ UNCHANGED dvars

\* The 'q' key handled the way BoxManager.handle_key_press handles it
\* (lines 126-128): sys.exit() inside the handler, nothing is returned.
KeyQuitExits ==
    /\ pc = "edit"
    /\ nev < MaxEvents
    /\ pc' = "exited"
    /\ ev' = Event("key_q", NoPoint, TRUE)
    /\ nev' = nev + 1
    /\ UNCHANGED <<mgr, config_file, file, load_status, cb_error, result>>
    /\ UNCHANGED dvars

\* key == ord('q'), lines 194-197 and 199-202: both lists are emptied, the
\* loop is left and get_box_data() of the emptied manager is returned.
KeyQuit ==
    /\ pc = "edit"
    /\ nev < MaxEvents
    /\ boxes' = <<>>
    /\ labels' = <<>>
    /\ pc' = "returned"
    /\ result' = get_box_data(labels', boxes')
    /\ ev' = Event("key_q", NoPoint, TRUE)
    /\ nev' = nev + 1
    /\ UNCHANGED <<drawing, current_box_start, current_box_end, selected_box_index,
                   selected_corner_index, moving_box, move_start, config_file, file,
                   load_status, cb_error>>
    /\ UNCHANGED dvars

Next ==
    \/ Launch
    \/ Relaunch
    \/ \E p \in Points : MouseDown(p)
    \/ \E p \in Points : MouseMove(p)
    \/ MouseUp
    \/ KeyUndo
    \/ KeyReset
    \/ \E ok \in BOOLEAN : KeySave(ok)
    \/ KeyQuit

Spec == Init /\ [][Next]_vars

\* ------------------------------------------------------------ editor states
Drawing == drawing

DraggingCorner == selected_corner_index # NoIndex

MovingRegion == moving_box

Idle ==
    /\ ~Drawing /\ ~DraggingCorner /\ ~MovingRegion
    /\ selected_box_index = NoIndex
    /\ move_start = NoPoint

\* The step delivers an input event of the given type.
StepOf(type) == nev' = nev + 1 /\ ev'.type = type

\* Some corner of the box lies within the corner threshold of the point.
NearSomeCorner(box, p) == \E k \in 1..Len(box) : HypotBelow(box[k], p, Threshold)

\* ------------------------------------------------------------------- claims

\* C1: starting from an empty BoxManager, no pointer-move fails: whenever a
\* pointer-move performs a corner-drag or a whole-region move, the remembered
\* region index is a valid index of the region list and the remembered corner
\* index is in 0..3, also when undo or reset came after the pointer-down.
C1_MoveIndexValid ==
    [][(/\ load_status = "none"
        /\ StepOf("move")
        /\ ~drawing
        /\ selected_box_index # NoIndex
        /\ selected_corner_index # NoIndex \/ (moving_box /\ move_start # NoPoint))
       => /\ 0 <= selected_box_index /\ selected_box_index < Len(boxes)
          /\ selected_corner_index # NoIndex => selected_corner_index \in 0..3
          /\ cb_error' = FALSE]_vars

\* C2: at most one manipulation is active: Drawing, DraggingCorner and
\* MovingRegion are pairwise exclusive, and when none holds the editor is Idle
\* with selected_box_index and move_start unset.
C2_OneManipulation ==
    /\ ~(Drawing /\ DraggingCorner)
    /\ ~(Drawing /\ MovingRegion)
    /\ ~(DraggingCorner /\ MovingRegion)
    /\ (~Drawing /\ ~DraggingCorner /\ ~MovingRegion)
         => (selected_box_index = NoIndex /\ move_start = NoPoint)

\* C3: a pointer-down in Idle at p takes exactly one transition, by priority
\* over the whole region list: DraggingCorner for the first region with a
\* corner within the threshold of p and its first such corner; else
\* MovingRegion for the first region containing p, with anchor p; else Drawing
\* with p as both provisional corners.  The region list is not changed.
C3_HitPriority ==
    [][(StepOf("down") /\ Idle) =>
        LET p == ev'.pt
            nearBoxes == {i \in 1..Len(boxes) : NearSomeCorner(boxes[i], p)}
            inBoxes == {i \in 1..Len(boxes) : point_in_box(p, boxes[i])}
        IN  /\ boxes' = boxes /\ labels' = labels
            /\ nearBoxes # {} =>
                 /\ \E i \in nearBoxes :
                      /\ \A j \in nearBoxes : i <= j
                      /\ selected_box_index' = i - 1
                      /\ \E k \in 1..Len(boxes[i]) :
                           /\ HypotBelow(boxes[i][k], p, Threshold)
                           /\ \A m \in 1..(k - 1) : ~HypotBelow(boxes[i][m], p, Threshold)
                           /\ selected_corner_index' = k - 1
                 /\ ~drawing' /\ ~moving_box' /\ move_start' = NoPoint
            /\ (nearBoxes = {} /\ inBoxes # {}) =>
                 /\ \E i \in inBoxes :
                      /\ \A j \in inBoxes : i <= j
                      /\ selected_box_index' = i - 1
                 /\ moving_box' /\ move_start' = p
                 /\ ~drawing' /\ selected_corner_index' = NoIndex
            /\ (nearBoxes = {} /\ inBoxes = {}) =>
                 /\ drawing' /\ current_box_start' = p /\ current_box_end' = p
                 /\ ~moving_box' /\ selected_corner_index' = NoIndex
                 /\ selected_box_index' = NoIndex /\ move_start' = NoPoint]_vars

\* C3 witness: the first event is a pointer-down that grabbed a corner of the
\* second region although the first region contains the point.
C3_Witness ==
    /\ nev = 1 /\ ev.type = "down"
    /\ Len(boxes) = 2
    /\ selected_box_index = 1 /\ selected_corner_index # NoIndex
    /\ ~drawing /\ ~moving_box
    /\ point_in_box(ev.pt, boxes[1])

\* C4: a draw gesture (pointer-down at a on empty space, pointer-moves, last
\* pointer position b, pointer-up) appends exactly one region with corners
\* (min x, min y), (max x, min y), (max x, max y), (min x, max y) of a and b
\* and label "Box N" for the new region count N, leaves the earlier regions
\* and labels unchanged and returns to Idle; pointer-moves during Drawing
\* change no region, and nothing but the gesture's own events moves a or b.
C4_DrawGesture ==
    [][/\ (/\ StepOf("down")
           /\ \A i \in 1..Len(boxes) :
                ~NearSomeCorner(boxes[i], ev'.pt) /\ ~point_in_box(ev'.pt, boxes[i]))
          => /\ drawing'
             /\ current_box_start' = ev'.pt /\ current_box_end' = ev'.pt
             /\ boxes' = boxes /\ labels' = labels
       /\ (StepOf("move") /\ drawing)
          => /\ drawing'
             /\ current_box_start' = current_box_start
             /\ current_box_end' = ev'.pt
             /\ boxes' = boxes /\ labels' = labels
       /\ (StepOf("up") /\ drawing)
          => LET x1 == current_box_start[1]
                 y1 == current_box_start[2]
                 x2 == current_box_end[1]
                 y2 == current_box_end[2]
             IN  /\ Len(boxes') = Len(boxes) + 1
                 /\ SubSeq(boxes', 1, Len(boxes)) = boxes
                 /\ boxes'[Len(boxes')] =
                      << Tup(Min2(x1, x2), Min2(y1, y2)), Tup(Max2(x1, x2), Min2(y1, y2)),
                         Tup(Max2(x1, x2), Max2(y1, y2)), Tup(Min2(x1, x2), Max2(y1, y2)) >>
                 /\ labels' = Append(labels, "Box " \o ToString(Len(boxes')))
                 /\ Idle'
       /\ (drawing /\ drawing' /\ nev' = nev + 1 /\ ev'.type \notin {"down", "move"})
          => /\ current_box_start' = current_box_start
             /\ current_box_end' = current_box_end]_vars

\* C4 witness: a pointer-up has just appended, as the first region "Box 1",
\* the rectangle of the anchors (30,24) and (36,12), whose y order is
\* reversed by the normalisation.
C4_Witness ==
    /\ ev.type = "up" /\ Idle
    /\ load_status = "none"
    /\ Len(boxes) = 1 /\ labels = <<"Box 1">>
    /\ CoordsOfBox(boxes[1]) = <<<<30, 12>>, <<36, 12>>, <<36, 24>>, <<30, 24>>>>

\* C5: during DraggingCorner for region i and corner k, a pointer-move to p
\* sets corner k of region i to p and changes no other corner, no other
\* region, no label and not the region count.
C5_CornerDrag ==
    [][(/\ StepOf("move")
        /\ selected_corner_index # NoIndex
        /\ selected_box_index # NoIndex)
       => /\ selected_box_index < Len(boxes)
          /\ Len(boxes') = Len(boxes)
          /\ \A i \in 1..Len(boxes) : \A k \in 1..Len(boxes[i]) :
               boxes'[i][k] =
                 IF i = selected_box_index + 1 /\ k = selected_corner_index + 1
                 THEN PointToCorner(ev'.pt)
                 ELSE boxes[i][k]
          /\ labels' = labels]_vars

\* C6: during MovingRegion for region i, a pointer-move to p translates the
\* four corners of region i by p minus the previous pointer position and sets
\* the anchor to p; other regions and the labels are unchanged.
C6_RegionMove ==
    [][(/\ StepOf("move")
        /\ moving_box
        /\ selected_box_index # NoIndex
        /\ move_start # NoPoint)
       => /\ selected_box_index < Len(boxes)
          /\ Len(boxes') = Len(boxes)
          /\ \A i \in 1..Len(boxes) : \A k \in 1..Len(boxes[i]) :
               CoordsOfBox(boxes'[i])[k] =
                 IF i = selected_box_index + 1
                 THEN <<boxes[i][k].x + ev'.pt[1] - move_start[1],
                        boxes[i][k].y + ev'.pt[2] - move_start[2]>>
                 ELSE CoordsOfBox(boxes[i])[k]
          /\ move_start' = ev'.pt
          /\ labels' = labels]_vars

\* C7: in any editor state, undo on n > 0 regions leaves exactly the first
\* n-1 regions and the first n-1 labels, undo on no regions changes nothing,
\* neither raises an error, and reset leaves no region and no label.
C7_UndoReset ==
    [][/\ StepOf("key_z")
          => /\ pc' # "raised"
             /\ boxes' = SubSeq(boxes, 1, Len(boxes) - 1)
             /\ labels' = IF Len(boxes) = 0 THEN labels
                          ELSE SubSeq(labels, 1, Len(boxes) - 1)
       /\ StepOf("key_r")
          => /\ pc' # "raised"
             /\ boxes' = <<>> /\ labels' = <<>>]_vars

\* C8: a configuration saved by the editor and loaded into a fresh BoxManager
\* gives the same regions in the same order, each with the same corner
\* coordinates in the same corner order, and the same labels in order.
C8_SaveLoadRoundTrip ==
    [][(/\ ev.type = "key_s" /\ ev.ok
        /\ pc = "returned" /\ pc' = "edit")
       => /\ load_status' = "ok"
          /\ Len(boxes') = Len(boxes)
          /\ CoordsOf(boxes') = CoordsOf(boxes)
          /\ labels' = labels]_vars

\* C8 witness: the program was run again on a file written by the previous
\* run, which held one drawn region with distinct x and y coordinates.
C8_Witness ==
    /\ ev.type = "launch" /\ load_status = "ok"
    /\ Len(boxes) = 1 /\ labels = <<"Box 1">>
    /\ file = JsonDump(boxes, labels)
    /\ \E k \in 1..4 : boxes[1][k].x # boxes[1][k].y

\* C9: after a failed load of the configuration the editor starts with no
\* region and no label: a failed load leaves nothing partially loaded.
C9_FailedLoadStartsEmpty ==
    (pc = "edit" /\ load_status = "failed" /\ ev.type \in {"none", "launch"})
        => (boxes = <<>> /\ labels = <<>>)

\* C10: a quit key in any editor state and with any regions ends the setup
\* loop at that event; define_boxes returns an empty mapping to its caller.
C10_QuitReturnsEmpty ==
    ev.type = "key_q" =>
        /\ pc = "returned"
        /\ result = <<>>
        /\ boxes = <<>> /\ labels = <<>>

\* C10 witness: the quit key arrived while a region was being moved, so the
\* manager held at least one region before the key.
C10_Witness ==
    /\ ev.type = "key_q" /\ pc = "returned"
    /\ moving_box /\ selected_box_index # NoIndex
    /\ result = <<>>

\* ============================================================ main's frame loop
\* Number of frames of the video source.
MaxFrames == 4

\* frame_skip = 2
FrameSkip == 2

\* min_contour_area = 15, the value main configures
MinContourArea == 15

\* def detect_fish(enhanced, fgbg, min_contour_area=10)
DefaultMinContourArea == 10

\* scale_factor: main sets 0.7; 0.5 and 1.0 are the other values of the
\* parameter that the guards at lines 249 and 342 distinguish.
ScaleFactors == {<<1, 2>>, <<7, 10>>, <<1, 1>>}

\* What cv2.findContours returns for one frame: contours in the coordinates
\* of the (downscaled) frame, each with its cv2.contourArea.
Contour(pts, area) == [pts |-> pts, area |-> area]

Speck == Contour(<<<<0, 0>>, <<1, 1>>>>, 5)

Noise == Contour(<<<<1, 1>>, <<2, 2>>>>, 12)

FishSmall == Contour(<<<<3, 4>>, <<5, 7>>>>, 20)

FishBoth == Contour(<<<<13, 13>>, <<15, 15>>>>, 15)

FishWide == Contour(<<<<16, 16>>, <<34, 34>>>>, 30)

FrameInputs ==
    { <<>>, <<Speck>>, <<Noise>>, <<FishBoth>>, <<FishWide>>, <<Speck, FishSmall>> }

\* Values define_boxes returns to main: no region, one region, two
\* overlapping regions.
RegionA == NewBox(<<0, 0>>, <<24, 24>>)

RegionB == NewBox(<<12, 12>>, <<36, 36>>)

BoxDataInputs ==
    { get_box_data(<<>>, <<>>),
      get_box_data(<<BoxLabel(1)>>, <<RegionA>>),
      get_box_data(<<BoxLabel(1), BoxLabel(2)>>, <<RegionA, RegionB>>) }

Keys == {"none", "q", "z", "r"}

\* detect_fish, line 237: [c for c in contours if cv2.contourArea(c) > min_contour_area]
detect_fish(contours, min_contour_area) ==
    SelectSeq(contours, LAMBDA c : c.area > min_contour_area)

\* process_frame, lines 244-253: cvtColor, clahe.apply, convertScaleAbs, then
\* the resize when scale_factor != 1.0, then detect_fish (fgbg.apply).
process_frame_stages(sf) ==
    <<"gray", "clahe", "brightness">>
        \o (IF sf # <<1, 1>> THEN <<"resize">> ELSE <<>>)
        \o <<"background">>

\* process_frame, line 253: detect_fish(enhanced, fgbg), the default threshold.
process_frame(raw) == detect_fish(raw, DefaultMinContourArea)

\* np.round(c / scale_factor) for an integer c >= 0 and scale_factor =
\* num / den: the nearest integer of c * den / num, a tie going to the even one.
RoundDiv(c, sf) ==
    LET n == c * sf[2]
        q == n \div sf[1]
        r == n % sf[1]
    IN  IF 2 * r < sf[1] THEN q
        ELSE IF 2 * r > sf[1] THEN q + 1
        ELSE IF q % 2 = 0 THEN q ELSE q + 1

\* Lines 342-343: every contour point divided by scale_factor and rounded.
RescaleContour(c, sf) ==
    [c EXCEPT !.pts = [k \in 1..Len(c.pts) |->
                          <<RoundDiv(c.pts[k][1], sf), RoundDiv(c.pts[k][2], sf)>>]]

RescaleContours(cs, sf) ==
    IF sf # <<1, 1>> THEN [k \in 1..Len(cs) |-> RescaleContour(cs[k], sf)] ELSE cs

\* cv2.boundingRect of integer points: (x, y, w, h) with the far column and
\* row included in w and h.
boundingRect(pts) ==
    LET xs == {pts[k][1] : k \in 1..Len(pts)}
        ys == {pts[k][2] : k \in 1..Len(pts)}
        xmin == CHOOSE v \in xs : \A u \in xs : v <= u
        xmax == CHOOSE v \in xs : \A u \in xs : v >= u
        ymin == CHOOSE v \in ys : \A u \in ys : v <= u
        ymax == CHOOSE v \in ys : \A u \in ys : v >= u
    IN  <<xmin, ymin, xmax - xmin + 1, ymax - ymin + 1>>

\* draw_fish_contours, lines 277-284.  box is a dict of box_data: the
\* attribute lookup box.contains raises AttributeError in the first pass of
\* the inner loop, before anything is added to time_spent.  The boxes computed
\* at line 278 until then, and whether the call raised.
draw_fish_contours(contours, regions) ==
    IF Len(contours) = 0
    THEN [rects |-> <<>>, raised |-> FALSE]
    ELSE IF Len(regions) = 0
    THEN [rects |-> [k \in 1..Len(contours) |-> boundingRect(contours[k].pts)],
          raised |-> FALSE]
    ELSE [rects |-> <<boundingRect(contours[1].pts)>>, raised |-> TRUE]

\* main, lines 323-326, after define_boxes returned box_data (held in result)
\* and main built its own BoxManager (line 309).
DetectInit ==
    /\ BoxManagerInit
    /\ pc = "returned"
    /\ config_file = FALSE
    /\ file = FileMissing
    /\ load_status = "none"
    /\ cb_error = FALSE
    /\ result \in BoxDataInputs
    /\ ev = Event("none", NoPoint, TRUE)
    /\ nev = 0
    /\ mpc = "loop"
    /\ scale_factor \in ScaleFactors
    /\ total_frames \in 0..MaxFrames
    /\ frames_read = 0
    /\ frame_count = 0
    /\ bg_updates = 0
    /\ processed = {}
    /\ stages = <<>>
    /\ found = <<>>
    /\ detections = <<>>
    /\ time_spent = [i \in 1..Len(result) |-> 0]
    /\ output = <<>>

evars == <<drawing, current_box_start, current_box_end, selected_box_index,
           selected_corner_index, moving_box, move_start, pc, config_file, file,
           load_status, cb_error, result, nev>>

\* A skipped frame that is nevertheless given to the background model.
SkipFrameFeedsModel ==
    /\ mpc = "loop"
    /\ frames_read < total_frames
    /\ frame_count % FrameSkip # 0
    /\ frames_read' = frames_read + 1
    /\ frame_count' = frame_count + 1
    /\ bg_updates' = bg_updates + 1
    /\ UNCHANGED <<boxes, labels, evars, ev, mpc, scale_factor, total_frames,
                   processed, stages, found, detections, time_spent, output>>

\* Lines 331-338: a frame is read and skipped.
SkipFrame ==
    /\ mpc = "loop"
    /\ frames_read < total_frames
    /\ frame_count % FrameSkip # 0
    /\ frames_read' = frames_read + 1
    /\ frame_count' = frame_count + 1
    /\ UNCHANGED <<boxes, labels, evars, ev, mpc, scale_factor, total_frames,
                   bg_updates, processed, stages, found, detections, time_spent,
                   output>>

\* Lines 331-333 and 340-352: a frame is read and processed, then the key
\* is polled and given to handle_key_press of main's own BoxManager.
ProcessFrame(raw, key) ==
    /\ mpc = "loop"
    /\ frames_read < total_frames
    /\ frame_count % FrameSkip = 0
    /\ frames_read' = frames_read + 1
    /\ processed' = processed \cup {frame_count}
    /\ stages' = process_frame_stages(scale_factor)
    /\ bg_updates' = bg_updates + 1
    /\ found' = process_frame(raw)
    /\ LET rescaled == RescaleContours(process_frame(raw), scale_factor)
           d == draw_fish_contours(rescaled, result)
       IN  /\ detections' = d.rects
           /\ IF d.raised
              THEN /\ mpc' = "raised"
                   /\ UNCHANGED <<frame_count, boxes, labels, ev>>
              ELSE /\ frame_count' = frame_count + 1
                   /\ ev' = Event("key_" \o key, NoPoint, TRUE)
                   /\ mpc' = IF key = "q" THEN "exited" ELSE mpc
                   /\ boxes' = IF key = "z" THEN remove_last_box(boxes, labels).boxes
                               ELSE IF key = "r" THEN <<>> ELSE boxes
                   /\ labels' = IF key = "z" THEN remove_last_box(boxes, labels).labels
                                ELSE IF key = "r" THEN <<>> ELSE labels
    /\ UNCHANGED <<evars, scale_factor, total_frames, time_spent, output>>

\* Lines 358-359: box_info["time"] = time_spent[i] for the i-th item.
WithTimes(box_data, times) ==
    [i \in 1..Len(box_data) |-> [box_data[i] EXCEPT !.time = times[i]]]

\* Lines 331-333 and 354-362: the source is exhausted, the times are written
\* into box_data and main returns it.
EndOfVideo ==
    /\ mpc = "loop"
    /\ frames_read = total_frames
    /\ mpc' = "done"
    /\ output' = WithTimes(result, time_spent)
    /\ UNCHANGED <<boxes, labels, evars, ev, scale_factor, total_frames, frames_read,
                   frame_count, bg_updates, processed, stages, found, detections,
                   time_spent>>

DetectNext ==
    \/ SkipFrame
    \/ \E raw \in FrameInputs, key \in Keys : ProcessFrame(raw, key)
    \/ EndOfVideo

SpecDetect == DetectInit /\ [][DetectNext]_vars

\* ------------------------------------------------------------ frame-loop claims
\* ceil(n / d) for n >= 0, d >= 1
CeilDiv(n, d) == (n + d - 1) \div d

\* cap.read() returned a frame in this step.
FrameRead == frames_read' = frames_read + 1

\* C11: with frame-skip N, exactly the frames whose index is a multiple of N
\* are processed; the background model is updated once for each processed
\* frame and never for a skipped one, and a skipped frame changes no time
\* counter.  After n frames read, the number of background-model updates is
\* the number of processed frames, ceil(n / N).
C11_FrameSkip ==
    /\ [](/\ processed = {i \in 0..(frames_read - 1) : i % FrameSkip = 0}
          /\ bg_updates = Cardinality(processed)
          /\ bg_updates = CeilDiv(frames_read, FrameSkip))
    /\ [][FrameRead =>
            IF frames_read % FrameSkip = 0
            THEN /\ processed' = processed \cup {frames_read}
                 /\ bg_updates' = bg_updates + 1
            ELSE /\ processed' = processed
                 /\ bg_updates' = bg_updates
                 /\ time_spent' = time_spent]_vars

\* C11 witness: frames 0 and 2 were processed, frame 1 was skipped, and the
\* loop is still running.
C11_Witness ==
    /\ mpc = "loop"
    /\ frames_read = 3
    /\ processed = {0, 2}
    /\ bg_updates = 2

\* A frame was read and given to process_frame in this step.
FrameProcessed == FrameRead /\ frames_read % FrameSkip = 0

\* C12: at downscale factor 0.5, a detection whose bounding box in the
\* downscaled frame is (x, y, w, h) is tested for containment with the box
\* (2x, 2y, 2w, 2h).
C12_RescaledBox ==
    [][(FrameProcessed /\ scale_factor = <<1, 2>>) =>
         \A k \in 1..Len(detections') :
            LET b == boundingRect(found'[k].pts)
            IN  detections'[k] = <<2 * b[1], 2 * b[2], 2 * b[3], 2 * b[4]>>]_vars

\* The boxes line 278 computes for the contours of a processed frame, had the
\* loop of draw_fish_contours run over all of them.
RectsOf(cs, sf) ==
    [k \in 1..Len(cs) |-> boundingRect(RescaleContours(cs, sf)[k].pts)]

\* The corners of the extent (x, y, w, h), as line 279 draws it.
RectCorners(r) ==
    << <<r[1], r[2]>>, <<r[1] + r[3], r[2]>>,
       <<r[1] + r[3], r[2] + r[4]>>, <<r[1], r[2] + r[4]>> >>

\* The extent (x, y, w, h) lies within the region: all its corners are in
\* the polygon.
LiesWithin(r, box) ==
    \A k \in 1..4 : point_in_box(RectCorners(r)[k], box)

\* The extent (x, y, w, h) and the region meet: a corner of one lies in the
\* other.
Touches(r, box) ==
    \/ \E k \in 1..4 : point_in_box(RectCorners(r)[k], box)
    \/ \E k \in 1..Len(box) :
          /\ r[1] <= box[k].x /\ box[k].x <= r[1] + r[3]
          /\ r[2] <= box[k].y /\ box[k].y <= r[2] + r[4]

\* Detections of the frame whose extent lies within, or meets, region i.
WithinRegion(rects, i) ==
    {k \in 1..Len(rects) : LiesWithin(rects[k], result[i].coords)}

TouchingRegion(rects, i) ==
    {k \in 1..Len(rects) : Touches(rects[k], result[i].coords)}

\* C13: with a non-empty region set, every processed frame completes without
\* error; a frame in which exactly one detection matches region R adds one
\* dt = frame_skip / fps to R's counter, a frame with no detection matching R
\* leaves it unchanged, and no counter is negative or decreases.
C13_Accumulates ==
    [][(FrameProcessed /\ result # <<>>) =>
         /\ mpc' # "raised"
         /\ \A i \in 1..Len(result) :
              LET rects == RectsOf(found', scale_factor)
              IN  /\ (/\ Cardinality(WithinRegion(rects, i)) = 1
                      /\ Cardinality(TouchingRegion(rects, i)) = 1)
                        => time_spent'[i] = time_spent[i] + 1
                  /\ TouchingRegion(rects, i) = {}
                        => time_spent'[i] = time_spent[i]
                  /\ time_spent[i] >= 0
                  /\ time_spent'[i] >= time_spent[i]]_vars

\* C14: a single detection whose box lies in the two overlapping regions adds
\* the same dt to both regions' counters in that frame.
C14_OverlapCountsBoth ==
    [][(/\ FrameProcessed
        /\ Len(result) = 2
        /\ Len(found') = 1
        /\ LiesWithin(RectsOf(found', scale_factor)[1], result[1].coords)
        /\ LiesWithin(RectsOf(found', scale_factor)[1], result[2].coords)) =>
         /\ time_spent'[1] = time_spent[1] + 1
         /\ time_spent'[2] = time_spent[2] + 1]_vars

\* The polygon with every coordinate doubled.
Doubled(box) == [k \in 1..Len(box) |-> [box[k] EXCEPT !.x = 2 * @, !.y = 2 * @]]

\* is_contour_in_box, lines 268-271: the centre (x + w/2, y + h/2) of the
\* bounding rectangle against the polygon; both are doubled to stay in the
\* integers, which changes no comparison of the test.
is_contour_in_box(r, box) ==
    pointPolygonTest(Doubled(box), <<2 * r[1] + r[3], 2 * r[2] + r[4]>>) >= 0

\* C15: containment is decided on the extent of the detection's box: a box
\* that overlaps the region while its centroid is outside the polygon counts
\* as matching and adds dt to the region's counter.
C15_ExtentNotCentroid ==
    [][FrameProcessed =>
         \A i \in 1..Len(result) :
            (/\ Len(found') = 1
             /\ Touches(RectsOf(found', scale_factor)[1], result[i].coords)
             /\ ~is_contour_in_box(RectsOf(found', scale_factor)[1], result[i].coords))
               => time_spent'[i] = time_spent[i] + 1]_vars

\* ------------------------------------------------------- point-in-polygon claims
\* Twice the signed area of the triangle a, b, p.
Cross(a, b, p) == (b.x - a.x) * (p[2] - a.y) - (b.y - a.y) * (p[1] - a.x)

\* p lies on the closed segment from corner a to corner b.
OnSegment(p, a, b) ==
    /\ Cross(a, b, p) = 0
    /\ Min2(a.x, b.x) <= p[1] /\ p[1] <= Max2(a.x, b.x)
    /\ Min2(a.y, b.y) <= p[2] /\ p[2] <= Max2(a.y, b.y)

\* The corner after corner k, around the closed polygon.
NextCorner(box, k) == box[(k % Len(box)) + 1]

\* p lies on an edge of the polygon or is one of its vertices.
OnBoundary(p, box) ==
    \E k \in 1..Len(box) : OnSegment(p, box[k], NextCorner(box, k))

\* The polygon turns the same way at every corner.
IsConvex(box) ==
    LET turn(k) == Cross(box[k], NextCorner(box, k),
                         <<NextCorner(box, (k % Len(box)) + 1).x,
                           NextCorner(box, (k % Len(box)) + 1).y>>)
    IN  \/ \A k \in 1..Len(box) : turn(k) > 0
        \/ \A k \in 1..Len(box) : turn(k) < 0

\* For a convex polygon: p is on the same side of every edge, the edge
\* itself included.
InsideOrOn(p, box) ==
    \/ \A k \in 1..Len(box) : Cross(box[k], NextCorner(box, k), p) >= 0
    \/ \A k \in 1..Len(box) : Cross(box[k], NextCorner(box, k), p) <= 0

\* C16: the point-in-polygon test is boundary-inclusive: a point on an edge
\* or equal to a vertex of a region is inside, and for a convex region the
\* test says inside exactly for the points inside or on the boundary (for
\* the square (0,0)-(10,10): (5,5) and (0,0) inside, (15,15) outside).  So a
\* pointer-down in Idle exactly on a region's edge, farther than the corner
\* threshold from every corner, starts MovingRegion and not Drawing.
C16_BoundaryInclusive ==
    /\ [](/\ point_in_box(<<5, 5>>, NewBox(<<0, 0>>, <<10, 10>>))
          /\ point_in_box(<<0, 0>>, NewBox(<<0, 0>>, <<10, 10>>))
          /\ ~point_in_box(<<15, 15>>, NewBox(<<0, 0>>, <<10, 10>>))
          /\ \A i \in 1..Len(boxes) : \A p \in Points :
                /\ OnBoundary(p, boxes[i]) => point_in_box(p, boxes[i])
                /\ IsConvex(boxes[i]) =>
                      (point_in_box(p, boxes[i]) <=> InsideOrOn(p, boxes[i])))
    /\ [][(/\ StepOf("down") /\ Idle
           /\ \E i \in 1..Len(boxes) : OnBoundary(ev'.pt, boxes[i])
           /\ \A j \in 1..Len(boxes) : ~NearSomeCorner(boxes[j], ev'.pt)) =>
            /\ moving_box' /\ move_start' = ev'.pt
            /\ selected_box_index' # NoIndex
            /\ ~drawing']_vars

\* C16 witness: the last event is a pointer-down on an edge of the selected
\* region, away from every corner, and the region is being moved.
C16_Witness ==
    /\ ev.type = "down"
    /\ moving_box /\ ~drawing /\ move_start = ev.pt
    /\ selected_box_index # NoIndex
    /\ selected_box_index < Len(boxes)
    /\ pointPolygonTest(boxes[selected_box_index + 1], ev.pt) = 0
    /\ \A j \in 1..Len(boxes) : ~NearSomeCorner(boxes[j], ev.pt)

\* ------------------------------------------------------------- detection claims
\* C17: the contour filter of the frame loop uses the minimum area main
\* configures: no contour with an area below it yields a detection.
C17_ConfiguredMinimum ==
    \A k \in 1..Len(found) : found[k].area >= MinContourArea

\* Stage a was applied to the last processed frame, and before stage b.
StageBefore(a, b) ==
    \E i, j \in 1..Len(stages) : stages[i] = a /\ stages[j] = b /\ i < j

\* C18: for every processed frame the normalisation runs in the order
\* downscale, grayscale, brightness offset, contrast enhancement, all before
\* the background model is fed; the downscale is optional.
C18_StageOrder ==
    stages # <<>> =>
        /\ StageBefore("gray", "brightness")
        /\ StageBefore("brightness", "clahe")
        /\ StageBefore("clahe", "background")
        /\ scale_factor # <<1, 1>> => StageBefore("resize", "gray")

\* ------------------------------------------------------------ editor invariant
\* C19: from an empty BoxManager, under pointer events, undo and reset (no
\* configuration load), the label list and the region list have the same
\* length, every region has exactly 4 corners and the label at index i
\* (0-based) is "Box i+1"; so the labels are pairwise distinct and
\* get_box_data has exactly one entry per region, in order.
C19_LabelsMatchRegions ==
    load_status = "none" =>
        /\ Len(labels) = Len(boxes)
        /\ \A i \in 1..Len(boxes) :
              /\ Len(boxes[i]) = 4
              /\ labels[i] = "Box " \o ToString(i)
        /\ \A i, j \in 1..Len(labels) : i # j => labels[i] # labels[j]
        /\ Len(get_box_data(labels, boxes)) = Len(boxes)
        /\ \A i \in 1..Len(boxes) :
              /\ get_box_data(labels, boxes)[i].key = labels[i]
              /\ get_box_data(labels, boxes)[i].coords = boxes[i]

\* C19 witness: no configuration was loaded and the pointer-up that ended
\* the last event completed the second of two regions or left both in place.
C19_Witness ==
    /\ load_status = "none"
    /\ pc = "edit"
    /\ Len(boxes) = 2
    /\ labels = <<"Box 1", "Box 2">>
    /\ ev.type = "up"

\* -------------------------------------------------------------- loop liveness
\* main is a single thread that runs its loop without waiting for anything
\* but cap.read and the 1 ms cv2.waitKey: a step that can be taken is taken.
SpecDetectFair == SpecDetect /\ WF_vars(DetectNext)

\* C20: for a video of n frames and no quit key, every frame read advances
\* the frame counter by one, the loop ends when the source is exhausted with
\* the frame counter equal to n, and the output then gives the i-th region's
\* label the i-th time counter.
C20_LoopTerminates ==
    /\ [][FrameRead => frame_count' = frame_count + 1]_vars
    /\ [](frames_read <= total_frames)
    /\ <>(mpc = "done" \/ mpc = "exited")
    /\ [](mpc = "done" =>
            /\ frames_read = total_frames
            /\ frame_count = total_frames
            /\ Len(output) = Len(result)
            /\ \A i \in 1..Len(output) :
                  /\ output[i].key = result[i].key
                  /\ output[i].time = time_spent[i])

====
